---- MODULE Spec2Model ----
(***************************************************************************)
(* Model of the Tor exit-node threat-intelligence provider                 *)
(* (msticpy/sectools/tiproviders/tor_exit_nodes.py).                       *)
(*                                                                         *)
(* Text is modelled as a sequence of chunks.  A chunk is a piece of text   *)
(* that holds no separator (a word such as "ExitNode" or "a"), or it is    *)
(* one of the two separator characters " " and "\n".  A Python str built   *)
(* by the parser (a token) is the TLA+ string obtained by concatenating    *)
(* the chunks of the token.                                                *)
(*                                                                         *)
(* Python dicts are objects on a heap: a reference is a natural number,    *)
(* heap[ref] is the dict's contents (a function from keys to values).      *)
(* Python list indices are 0-based, TLA+ sequences 1-based: fields[0] of   *)
(* the source is fields[1] here, fields[1] of the source is fields[2].     *)
(***************************************************************************)
EXTENDS Integers, Sequences, FiniteSets, TLC

VARIABLES
    feed,       \* the document given to the parser, as a sequence of lines
    parsed,     \* outcome of dict(_tor_splitter(text)) applied to the feed
    pc,         \* provider lifecycle: "new", "ready" or "raised"
    fetched,    \* what requests.get did: "none" yet, "ok", or the class raised
    nodelist,   \* self._nodelist: address -> reference of the record dict
    heap,       \* reference -> contents of the dict object
    results,    \* the LookupResults handed to the caller so far
    exc,        \* exception that propagated out of the last call, or "none"
    ret,        \* value returned by the last call
    lastOp,     \* the operation that made the last step
    fetches     \* number of HTTP GETs performed so far

vars == <<feed, parsed, pc, fetched, nodelist, heap, results, exc, ret,
          lastOp, fetches>>

(***************************************************************************)
(* Bounds of the model.                                                    *)
(***************************************************************************)
MaxLines == 5       \* lines of a feed given to the parser
MaxCtorLines == 4   \* lines of the feed fetched by a constructed provider
MaxCalls == 2       \* lookup_ioc results kept by the caller

(***************************************************************************)
(* Python values.                                                          *)
(***************************************************************************)
None == [t |-> "None"]
Str(s) == [t |-> "str", v |-> s]
Ref(r) == [t |-> "ref", v |-> r]
Dict(d) == [t |-> "dict", v |-> d]
Tuple(x) == [t |-> "tuple", v |-> x]

EmptyDict == [k \in {} |-> None]

\* d[k] = v
DictSet(d, k, val) ==
    [x \in DOMAIN d \cup {k} |-> IF x = k THEN val ELSE d[x]]

\* the heap: references are handed out in order of allocation, from 0
EmptyHeap == [r \in {} |-> EmptyDict]
NextRef(h) == Cardinality(DOMAIN h)
\* {} : a new empty dict object
Alloc(h) == [r \in DOMAIN h \cup {NextRef(h)} |->
                IF r \in DOMAIN h THEN h[r] ELSE EmptyDict]

\* the str spelled by a chunk sequence
RECURSIVE Text(_)
Text(s) == IF s = <<>> THEN "" ELSE Head(s) \o Text(Tail(s))

\* position of the first occurrence of sep in s at or after i, 0 if none
RECURSIVE Find(_, _, _)
Find(s, sep, i) ==
    IF i > Len(s) THEN 0
    ELSE IF s[i] = sep THEN i ELSE Find(s, sep, i + 1)

\* str.split(sep, maxsplit); maxsplit = -1 is "no limit"
RECURSIVE split(_, _, _)
split(s, sep, maxsplit) ==
    LET i == Find(s, sep, 1) IN
    IF maxsplit = 0 \/ i = 0
    THEN <<s>>
    ELSE <<SubSeq(s, 1, i - 1)>>
             \o split(SubSeq(s, i + 1, Len(s)), sep, maxsplit - 1)

\* "\n".join(lines): the body of the HTTP response
RECURSIVE JoinLines(_)
JoinLines(lines) ==
    IF lines = <<>> THEN <<>>
    ELSE IF Len(lines) = 1 THEN lines[1]
    ELSE lines[1] \o <<"\n">> \o JoinLines(Tail(lines))

(***************************************************************************)
(* Tor._tor_splitter, a generator.  The state of the generator is          *)
(*   node_dict : reference of the current accumulator dict                 *)
(*   heap      : the dicts allocated so far (node_dict = {} allocates)     *)
(*   out       : the (key, reference) pairs yielded so far                 *)
(*   exc       : "none", or the exception raised                           *)
(***************************************************************************)
SplitterStart ==
    [node_dict |-> 0, heap |-> Alloc(EmptyHeap), out |-> <<>>, exc |-> "none"]

\* faulty variant of Fields: line.split(" ", 1), the value is the whole remainder
FieldsSplitOnce(line) ==
    LET parts == split(line, " ", 1)
    IN  [i \in 1..Len(parts) |-> Text(parts[i])]

\* fields = line.split(" ", 2), as Python strs
Fields(line) ==
    LET parts == split(line, " ", 2)
    IN  [i \in 1..Len(parts) |-> Text(parts[i])]

\* faulty variant of ResetOnExitNode: the accumulator is never reset
ResetNever(st, fields) == st

\* node_dict = {} when the line starts a record
ResetOnExitNode(st, fields) ==
    IF fields[1] = "ExitNode"
    THEN [st EXCEPT !.node_dict = NextRef(st.heap),
                    !.heap = Alloc(st.heap)]
    ELSE st

\* node_dict[fields[0]] = fields[1] if len(fields) > 1 else None
StoreField(st, fields) ==
    LET val == IF Len(fields) > 1 THEN Str(fields[2]) ELSE None
    IN  [st EXCEPT !.heap[st.node_dict] = DictSet(@, fields[1], val)]

\* faulty variant of YieldOnExitAddress: the accumulator is cleared after emission
YieldAndClear(st, fields) ==
    IF fields[1] = "ExitAddress"
    THEN IF Len(fields) > 1
         THEN [st EXCEPT !.out = Append(@, <<fields[2], st.node_dict>>),
                         !.node_dict = NextRef(st.heap),
                         !.heap = Alloc(st.heap)]
         ELSE [st EXCEPT !.exc = "IndexError"]
    ELSE st

\* yield fields[1], node_dict
YieldOnExitAddress(st, fields) ==
    IF fields[1] = "ExitAddress"
    THEN IF Len(fields) > 1
         THEN [st EXCEPT !.out = Append(@, <<fields[2], st.node_dict>>)]
         ELSE [st EXCEPT !.exc = "IndexError"]
    ELSE st

\* one iteration of the for loop
SplitterStep(st, line) ==
    IF line = <<>>
    THEN st
    ELSE LET fields == Fields(line)
         IN  YieldOnExitAddress(
                 StoreField(ResetOnExitNode(st, fields), fields), fields)

RECURSIVE SplitterLoop(_, _, _)
SplitterLoop(st, lines, i) ==
    IF i > Len(lines) \/ st.exc # "none"
    THEN st
    ELSE SplitterLoop(SplitterStep(st, lines[i]), lines, i + 1)

tor_splitter(node_list) ==
    SplitterLoop(SplitterStart, split(node_list, "\n", -1), 1)

\* faulty variant of DictOfPairs: the first pair with a key is kept
RECURSIVE DictOfPairsFirstWins(_)
DictOfPairsFirstWins(pairs) ==
    IF pairs = <<>> THEN EmptyDict
    ELSE DictSet(DictOfPairsFirstWins(Tail(pairs)),
                 pairs[1][1], pairs[1][2])

\* dict(pairs): a later pair with the same key replaces an earlier one
RECURSIVE DictOfPairs(_)
DictOfPairs(pairs) ==
    IF pairs = <<>> THEN EmptyDict
    ELSE LET n == Len(pairs)
         IN  DictSet(DictOfPairs(SubSeq(pairs, 1, n - 1)),
                     pairs[n][1], pairs[n][2])

\* dict(self._tor_splitter(tor_raw_list))
NodeDictOf(tor_raw_list) ==
    LET g == tor_splitter(tor_raw_list)
    IN  [exc |-> g.exc,
         nodelist |-> IF g.exc = "none" THEN DictOfPairs(g.out) ELSE EmptyDict,
         heap |-> g.heap]

(***************************************************************************)
(* Exceptions.  The except clause of Tor.__init__ names ConnectionError;   *)
(* the module imports requests and imports no name ConnectionError, so     *)
(* the name is the builtin class.  The classes requests raises derive      *)
(* from requests.exceptions.RequestException, a subclass of IOError        *)
(* (= OSError), and not from the builtin ConnectionError.                  *)
(***************************************************************************)
ExcBase ==
    [x \in {"ConnectionError", "requests.exceptions.ConnectionError",
            "requests.exceptions.RequestException", "OSError",
            "UnicodeDecodeError", "ValueError",
            "IndexError", "KeyError", "LookupError"} |->
        CASE x = "ConnectionError" -> "OSError"
          [] x = "requests.exceptions.ConnectionError" ->
                 "requests.exceptions.RequestException"
          [] x = "requests.exceptions.RequestException" -> "OSError"
          [] x = "UnicodeDecodeError" -> "ValueError"
          [] x = "IndexError" -> "LookupError"
          [] x = "KeyError" -> "LookupError"
          [] OTHER -> "Exception"]

\* isinstance(e, cls) for an exception of class e
RECURSIVE IsInstance(_, _)
IsInstance(e, cls) ==
    \/ e = cls
    \/ e \in DOMAIN ExcBase /\ IsInstance(ExcBase[e], cls)

\* faulty variant of Caught: except Exception:
CaughtAny(e) == TRUE

\* except ConnectionError:
Caught(e) == IsInstance(e, "ConnectionError")

(***************************************************************************)
(* The feeds of the model.                                                 *)
(***************************************************************************)
FeedLines ==
    { <<>>,
      <<"ExitNode", " ", "a">>,
      <<"ExitNode">>,
      <<"ExitAddress", " ", "a">>,
      <<"ExitAddress", " ", "b", " ", "a">>,
      <<"ExitAddress">>,
      <<"LastStatus", " ", "a", " ", "b">> }

Feeds(n) == UNION { [1..k -> FeedLines] : k \in 0..n }

\* what requests.get(...).content.decode() does: the text, or an exception
Responses ==
    { [kind |-> "ok", lines |-> f] : f \in Feeds(MaxCtorLines) }
    \cup { [kind |-> e, lines |-> <<>>] :
             e \in {"ConnectionError", "requests.exceptions.ConnectionError",
                    "UnicodeDecodeError"} }

Iocs == {"a", "b", "c"}

BASE_URL == "https://check.torproject.org/exit-addresses"

(***************************************************************************)
(* LookupResult and TISeverity (ti_provider_base).                         *)
(***************************************************************************)
LookupResult(ioc, ioc_type, provider, result, reference, status) ==
    [ioc |-> ioc, ioc_type |-> ioc_type, provider |-> provider,
     result |-> result, reference |-> reference, status |-> status,
     severity |-> "information", details |-> None, raw_result |-> None]

set_severity(result, sev) == [result EXCEPT !.severity = sev]

\* the dicts still referenced by the table; the others are freed
Reachable(h, nl) ==
    [r \in {nl[k] : k \in DOMAIN nl} |-> h[r]]

(***************************************************************************)
(* Tor.__init__                                                            *)
(***************************************************************************)
TorInit(resp) ==
    LET p == NodeDictOf(JoinLines(resp.lines))
        \* the exception raised inside the try block, "none" if none
        raised == IF resp.kind # "ok" THEN resp.kind ELSE p.exc
    IN  /\ pc = "new"
        /\ fetches' = fetches + 1
        /\ fetched' = resp.kind
        /\ lastOp' = "__init__"
        /\ ret' = None
        /\ results' = results
        /\ IF raised = "none"
           THEN /\ nodelist' = p.nodelist
                /\ heap' = Reachable(p.heap, p.nodelist)
                /\ pc' = "ready"
                /\ exc' = "none"
           ELSE IF Caught(raised)
           THEN /\ nodelist' = EmptyDict
                /\ heap' = EmptyHeap
                /\ pc' = "ready"
                /\ exc' = "none"
           ELSE /\ nodelist' = nodelist
                /\ heap' = heap
                /\ pc' = "raised"
                /\ exc' = raised
        /\ UNCHANGED <<feed, parsed>>

Construct == pc = "new" /\ \E resp \in Responses : TorInit(resp)

(***************************************************************************)
(* Tor.lookup_ioc                                                          *)
(***************************************************************************)
\* self._nodelist.get(ioc)
NodelistGet(nl, ioc) == IF ioc \in DOMAIN nl THEN Ref(nl[ioc]) ELSE None

\* if tor_node:
Truthy(h, tor_node) == tor_node # None /\ h[tor_node.v] # EmptyDict

\* the keys read by tor_node["ExitNode"] and tor_node["LastStatus"]
DetailKeys == {"ExitNode", "LastStatus"}

\* faulty variant of LookupIoc: self._nodelist[ioc] instead of .get(ioc)
LookupIocSubscript(ioc) ==
    LET result == LookupResult(ioc, "ipv4", "TOR", nodelist # EmptyDict,
                               BASE_URL,
                               IF nodelist # EmptyDict THEN 0 ELSE -1)
        tor_node == NodelistGet(nodelist, ioc)
    IN  /\ pc = "ready"
        /\ Len(results) < MaxCalls
        /\ lastOp' = "lookup_ioc"
        /\ IF tor_node = None
           THEN /\ results' = results
                /\ ret' = None
                /\ exc' = "KeyError"
           ELSE IF Truthy(heap, tor_node)
           THEN IF DetailKeys \subseteq DOMAIN heap[tor_node.v]
                THEN LET r == [set_severity(result, "warning") EXCEPT
                                 !.details = Dict(
                                     [NodeID |-> heap[tor_node.v]["ExitNode"],
                                      LastStatus |->
                                          heap[tor_node.v]["LastStatus"]]),
                                 !.raw_result = tor_node]
                     IN  /\ results' = Append(results, r)
                         /\ ret' = r
                         /\ exc' = "none"
                ELSE /\ results' = results
                     /\ ret' = None
                     /\ exc' = "KeyError"
           ELSE LET r == [result EXCEPT !.details = Str("Not found.")]
                IN  /\ results' = Append(results, r)
                    /\ ret' = r
                    /\ exc' = "none"
        /\ UNCHANGED <<feed, parsed, pc, fetched, nodelist, heap, fetches>>

\* faulty variant of LookupIoc: result and status say whether the ioc
\* matched (result=ioc in self._nodelist)
LookupIocFlagByMatch(ioc) ==
    LET result == LookupResult(ioc, "ipv4", "TOR", ioc \in DOMAIN nodelist,
                               BASE_URL,
                               IF ioc \in DOMAIN nodelist THEN 0 ELSE -1)
        tor_node == NodelistGet(nodelist, ioc)
    IN  /\ pc = "ready"
        /\ Len(results) < MaxCalls
        /\ lastOp' = "lookup_ioc"
        /\ IF Truthy(heap, tor_node)
           THEN IF DetailKeys \subseteq DOMAIN heap[tor_node.v]
                THEN LET r == [set_severity(result, "warning") EXCEPT
                                 !.details = Dict(
                                     [NodeID |-> heap[tor_node.v]["ExitNode"],
                                      LastStatus |->
                                          heap[tor_node.v]["LastStatus"]]),
                                 !.raw_result = tor_node]
                     IN  /\ results' = Append(results, r)
                         /\ ret' = r
                         /\ exc' = "none"
                ELSE /\ results' = results
                     /\ ret' = None
                     /\ exc' = "KeyError"
           ELSE LET r == [result EXCEPT !.details = Str("Not found.")]
                IN  /\ results' = Append(results, r)
                    /\ ret' = r
                    /\ exc' = "none"
        /\ UNCHANGED <<feed, parsed, pc, fetched, nodelist, heap, fetches>>

\* faulty variant of LookupIoc: status=-1 if self._nodelist else 0
LookupIocStatusInverted(ioc) ==
    LET result == LookupResult(ioc, "ipv4", "TOR", nodelist # EmptyDict,
                               BASE_URL,
                               IF nodelist # EmptyDict THEN -1 ELSE 0)
        tor_node == NodelistGet(nodelist, ioc)
    IN  /\ pc = "ready"
        /\ Len(results) < MaxCalls
        /\ lastOp' = "lookup_ioc"
        /\ IF Truthy(heap, tor_node)
           THEN IF DetailKeys \subseteq DOMAIN heap[tor_node.v]
                THEN LET r == [set_severity(result, "warning") EXCEPT
                                 !.details = Dict(
                                     [NodeID |-> heap[tor_node.v]["ExitNode"],
                                      LastStatus |->
                                          heap[tor_node.v]["LastStatus"]]),
                                 !.raw_result = tor_node]
                     IN  /\ results' = Append(results, r)
                         /\ ret' = r
                         /\ exc' = "none"
                ELSE /\ results' = results
                     /\ ret' = None
                     /\ exc' = "KeyError"
           ELSE LET r == [result EXCEPT !.details = Str("Not found.")]
                IN  /\ results' = Append(results, r)
                    /\ ret' = r
                    /\ exc' = "none"
        /\ UNCHANGED <<feed, parsed, pc, fetched, nodelist, heap, fetches>>

\* faulty variant of LookupIoc: self._nodelist.pop(ioc, None) instead of .get(ioc)
LookupIocPop(ioc) ==
    LET result == LookupResult(ioc, "ipv4", "TOR", nodelist # EmptyDict,
                               BASE_URL,
                               IF nodelist # EmptyDict THEN 0 ELSE -1)
        tor_node == NodelistGet(nodelist, ioc)
    IN  /\ pc = "ready"
        /\ Len(results) < MaxCalls
        /\ lastOp' = "lookup_ioc"
        /\ nodelist' = [k \in DOMAIN nodelist \ {ioc} |-> nodelist[k]]
        /\ IF Truthy(heap, tor_node)
           THEN IF DetailKeys \subseteq DOMAIN heap[tor_node.v]
                THEN LET r == [set_severity(result, "warning") EXCEPT
                                 !.details = Dict(
                                     [NodeID |-> heap[tor_node.v]["ExitNode"],
                                      LastStatus |->
                                          heap[tor_node.v]["LastStatus"]]),
                                 !.raw_result = tor_node]
                     IN  /\ results' = Append(results, r)
                         /\ ret' = r
                         /\ exc' = "none"
                ELSE /\ results' = results
                     /\ ret' = None
                     /\ exc' = "KeyError"
           ELSE LET r == [result EXCEPT !.details = Str("Not found.")]
                IN  /\ results' = Append(results, r)
                    /\ ret' = r
                    /\ exc' = "none"
        /\ UNCHANGED <<feed, parsed, pc, fetched, heap, fetches>>

LookupIoc(ioc) ==
    LET result == LookupResult(ioc, "ipv4", "TOR", nodelist # EmptyDict,
                               BASE_URL,
                               IF nodelist # EmptyDict THEN 0 ELSE -1)
        tor_node == NodelistGet(nodelist, ioc)
    IN  /\ pc = "ready"
        /\ Len(results) < MaxCalls
        /\ lastOp' = "lookup_ioc"
        /\ IF Truthy(heap, tor_node)
           THEN IF DetailKeys \subseteq DOMAIN heap[tor_node.v]
                THEN LET r == [set_severity(result, "warning") EXCEPT
                                 !.details = Dict(
                                     [NodeID |-> heap[tor_node.v]["ExitNode"],
                                      LastStatus |->
                                          heap[tor_node.v]["LastStatus"]]),
                                 !.raw_result = tor_node]
                     IN  /\ results' = Append(results, r)
                         /\ ret' = r
                         /\ exc' = "none"
                ELSE /\ results' = results
                     /\ ret' = None
                     /\ exc' = "KeyError"
           ELSE LET r == [result EXCEPT !.details = Str("Not found.")]
                IN  /\ results' = Append(results, r)
                    /\ ret' = r
                    /\ exc' = "none"
        /\ UNCHANGED <<feed, parsed, pc, fetched, nodelist, heap, fetches>>

(***************************************************************************)
(* Tor.parse_results                                                       *)
(***************************************************************************)
\* faulty variant of ParseResults: the triple is read from the response
ParseResultsEcho(i) ==
    /\ pc = "ready"
    /\ i \in 1..Len(results)
    /\ lastOp' = "parse_results"
    /\ ret' = Tuple(<<results[i].result, results[i].severity,
                       results[i].details>>)
    /\ exc' = "none"
    /\ UNCHANGED <<feed, parsed, pc, fetched, nodelist, heap, results,
                   fetches>>

ParseResults(i) ==
    /\ pc = "ready"
    /\ i \in 1..Len(results)
    /\ lastOp' = "parse_results"
    /\ ret' = Tuple(<<TRUE, "information", None>>)
    /\ exc' = "none"
    /\ UNCHANGED <<feed, parsed, pc, fetched, nodelist, heap, results,
                   fetches>>

(***************************************************************************)
(* The caller holds the LookupResults it was given and may write to the    *)
(* dict it finds in raw_result.                                            *)
(***************************************************************************)
CallerWritesRaw(i) ==
    /\ pc = "ready"
    /\ i \in 1..Len(results)
    /\ results[i].raw_result # None
    /\ lastOp' = "caller"
    /\ heap' = [heap EXCEPT ![results[i].raw_result.v] =
                   DictSet(@, "ExitNode", Str("changed"))]
    /\ UNCHANGED <<feed, parsed, pc, fetched, nodelist, results, exc, ret,
                   fetches>>

NotParsed == [exc |-> "pending", nodelist |-> EmptyDict, heap |-> EmptyHeap]

Init ==
    /\ feed = <<>>
    /\ parsed = NotParsed
    /\ pc = "new"
    /\ fetched = "none"
    /\ nodelist = EmptyDict
    /\ heap = EmptyHeap
    /\ results = <<>>
    /\ exc = "none"
    /\ ret = None
    /\ lastOp = "none"
    /\ fetches = 0

Next ==
    \/ Construct
    \/ \E ioc \in Iocs : LookupIoc(ioc)
    \/ \E i \in 1..MaxCalls : ParseResults(i)
    \/ \E i \in 1..MaxCalls : CallerWritesRaw(i)

Spec == Init /\ [][Next]_vars

(***************************************************************************)
(* The parser alone: Init draws the feed, the one step parses it.          *)
(***************************************************************************)
InitSplitter ==
    /\ feed \in Feeds(MaxLines)
    /\ parsed = NotParsed
    /\ pc = "new"
    /\ fetched = "none"
    /\ nodelist = EmptyDict
    /\ heap = EmptyHeap
    /\ results = <<>>
    /\ exc = "none"
    /\ ret = None
    /\ lastOp = "none"
    /\ fetches = 0

Split ==
    /\ parsed = NotParsed
    /\ parsed' = NodeDictOf(JoinLines(feed))
    /\ UNCHANGED <<feed, pc, fetched, nodelist, heap, results, exc, ret,
                   lastOp, fetches>>

NextSplitter == Split

SpecSplitter == InitSplitter /\ [][NextSplitter]_vars

(***************************************************************************)
(* Reading of a feed line used to state the properties: the field name is  *)
(* the text before the first space, the value token the text between the   *)
(* first and the second space, the remainder all text after the first      *)
(* space.                                                                  *)
(***************************************************************************)
SpacesOf(line) == {i \in 1..Len(line) : line[i] = " "}
FirstSpace(line) ==
    IF SpacesOf(line) = {} THEN Len(line) + 1
    ELSE CHOOSE i \in SpacesOf(line) : \A j \in SpacesOf(line) : i <= j
NameOf(line) == Text(SubSeq(line, 1, FirstSpace(line) - 1))
HasValue(line) == SpacesOf(line) # {}
RemainderOf(line) == SubSeq(line, FirstSpace(line) + 1, Len(line))
TokenOf(line) ==
    Text(SubSeq(RemainderOf(line), 1, FirstSpace(RemainderOf(line)) - 1))
ValueOf(line) == IF HasValue(line) THEN Str(TokenOf(line)) ELSE None

IsExitNode(line) == line # <<>> /\ NameOf(line) = "ExitNode"
IsExitAddress(line) == line # <<>> /\ NameOf(line) = "ExitAddress"

\* where the segment of line j starts: the last ExitNode line at or before
\* j, or line 1 when there is none
SegStart(L, j) ==
    IF \E s \in 1..j : IsExitNode(L[s])
    THEN CHOOSE s \in 1..j :
             IsExitNode(L[s]) /\ \A t \in (s + 1)..j : ~IsExitNode(L[t])
    ELSE 1

\* the fields declared by the lines s..j, a later line replacing an earlier
\* one of the same name
FieldsDeclared(L, s, j) ==
    LET idx == {t \in s..j : L[t] # <<>>}
    IN  [n \in {NameOf(L[t]) : t \in idx} |->
            LET t == CHOOSE t \in idx :
                         /\ NameOf(L[t]) = n
                         /\ \A u \in idx : NameOf(L[u]) = n => u <= t
            IN  ValueOf(L[t])]

\* the ExitAddress lines of the feed whose address is k
EmittersOf(L, k) ==
    {j \in 1..Len(L) : IsExitAddress(L[j]) /\ HasValue(L[j])
                       /\ TokenOf(L[j]) = k}
LastEmitter(L, k) ==
    CHOOSE j \in EmittersOf(L, k) : \A i \in EmittersOf(L, k) : i <= j
AddressesOf(L) ==
    {TokenOf(L[j]) : j \in {i \in 1..Len(L) :
                               IsExitAddress(L[i]) /\ HasValue(L[i])}}

\* the record the parsed table holds under key k
ParsedRecord(k) == parsed.heap[parsed.nodelist[k]]

(***************************************************************************)
(* C1.  A feed is well formed when its non-empty lines are a sequence of   *)
(* records, each an ExitNode line, then field lines, then one ExitAddress  *)
(* line carrying an address.                                               *)
(***************************************************************************)
WellFormedLines(L) ==
    /\ Len(L) > 0
    /\ IsExitNode(L[1])
    /\ IsExitAddress(L[Len(L)])
    /\ \A j \in 1..Len(L) :
          /\ IsExitAddress(L[j]) => HasValue(L[j])
          /\ IsExitAddress(L[j]) /\ j < Len(L) => IsExitNode(L[j + 1])
          /\ IsExitNode(L[j]) /\ j > 1 => IsExitAddress(L[j - 1])

NonEmpty(line) == line # <<>>
\* empty lines may stand anywhere
WellFormed(L) == WellFormedLines(SelectSeq(L, NonEmpty))

\* C1: for a well-formed feed the table maps each address to exactly the
\* fields declared from its own ExitNode line up to and including its
\* ExitAddress line (the last record of that address); no field of an
\* earlier record appears in a later one.
C1_NoLeakAcrossReset ==
    (parsed.exc # "pending" /\ WellFormed(feed)) =>
        /\ parsed.exc = "none"
        /\ DOMAIN parsed.nodelist = AddressesOf(feed)
        /\ \A k \in DOMAIN parsed.nodelist :
              LET j == LastEmitter(feed, k)
              IN  ParsedRecord(k) = FieldsDeclared(feed, SegStart(feed, j), j)

\* two full records, the first with a LastStatus field the second lacks
C1_Witness ==
    /\ parsed.exc = "none"
    /\ WellFormed(feed)
    /\ Len(feed) = 5
    /\ NameOf(feed[2]) = "LastStatus"
    /\ IsExitNode(feed[4])
    /\ DOMAIN parsed.nodelist = {"a", "b"}
    /\ "LastStatus" \in DOMAIN ParsedRecord(TokenOf(feed[3]))
    /\ "LastStatus" \notin DOMAIN ParsedRecord(TokenOf(feed[5]))

(***************************************************************************)
(* C2                                                                      *)
(***************************************************************************)
\* C2: the record stored under an address equals the fields accumulated up
\* to and including the ExitAddress line that emitted it, and no later line
\* of the feed changes it.
C2_EmittedRecordIsCopy ==
    parsed.exc = "none" =>
        \A k \in DOMAIN parsed.nodelist :
            LET j == LastEmitter(feed, k)
            IN  ParsedRecord(k) = FieldsDeclared(feed, SegStart(feed, j), j)

(***************************************************************************)
(* C3                                                                      *)
(***************************************************************************)
\* the accumulator current at line i: the parser starts with dict 0 and
\* makes a new dict at each ExitNode line
ObjOf(L, i) == Cardinality({s \in 1..i : IsExitNode(L[s])})

\* line i is the last line of its name before the next ExitNode line
LastOfName(L, i) ==
    \A t \in (i + 1)..Len(L) :
        (L[t] # <<>> /\ NameOf(L[t]) = NameOf(L[i])) =>
            \E u \in (i + 1)..t : IsExitNode(L[u])

\* C3: parsing any feed finishes without raising an exception; empty lines
\* are skipped and a line holding only a field name stores null for it.
C3_ParserTotal ==
    parsed.exc # "pending" =>
        /\ parsed.exc = "none"
        /\ \A i \in 1..Len(feed) :
              (feed[i] # <<>> /\ ~HasValue(feed[i]) /\ LastOfName(feed, i)) =>
                  parsed.heap[ObjOf(feed, i)][NameOf(feed[i])] = None
        /\ \A r \in DOMAIN parsed.heap : "" \notin DOMAIN parsed.heap[r]

(***************************************************************************)
(* C6                                                                      *)
(***************************************************************************)
\* C6 as stated: the value stored for a field is the whole remainder of the
\* line after the first space, and an ExitAddress line is keyed by that
\* remainder.
C6_ValueIsRemainder ==
    parsed.exc = "none" =>
        /\ \A i \in 1..Len(feed) :
              (IsExitAddress(feed[i]) /\ HasValue(feed[i])) =>
                  Text(RemainderOf(feed[i])) \in DOMAIN parsed.nodelist
        /\ \A i \in 1..Len(feed) :
              (feed[i] # <<>> /\ HasValue(feed[i]) /\ LastOfName(feed, i)) =>
                  parsed.heap[ObjOf(feed, i)][NameOf(feed[i])]
                      = Str(Text(RemainderOf(feed[i])))

\* C6 amended: the value stored for a field is the text between the first
\* and the second space of the line (fields[1] of line.split(" ", 2)); what
\* follows the second space is dropped.  An ExitAddress line is keyed by
\* that token.
C6_ValueIsSecondToken ==
    parsed.exc = "none" =>
        /\ \A i \in 1..Len(feed) :
              (IsExitAddress(feed[i]) /\ HasValue(feed[i])) =>
                  /\ TokenOf(feed[i]) \in DOMAIN parsed.nodelist
                  /\ Text(RemainderOf(feed[i])) # TokenOf(feed[i]) =>
                        Text(RemainderOf(feed[i])) \notin DOMAIN parsed.nodelist
        /\ \A i \in 1..Len(feed) :
              (feed[i] # <<>> /\ HasValue(feed[i]) /\ LastOfName(feed, i)) =>
                  parsed.heap[ObjOf(feed, i)][NameOf(feed[i])]
                      = Str(TokenOf(feed[i]))

\* a field line and an ExitAddress line whose values hold a space
C6_Witness ==
    /\ parsed.exc = "none"
    /\ \E i, j \in 1..Len(feed) :
          /\ i < j
          /\ feed[i] = <<"LastStatus", " ", "a", " ", "b">>
          /\ feed[j] = <<"ExitAddress", " ", "b", " ", "a">>
          /\ \A t \in i..j : ~IsExitNode(feed[t])
          /\ LastOfName(feed, i)
          /\ "b" \in DOMAIN parsed.nodelist
          /\ ParsedRecord("b")["LastStatus"] = Str("a")

(***************************************************************************)
(* C9                                                                      *)
(***************************************************************************)
BareExitAddress(L) ==
    \E i \in 1..Len(L) : IsExitAddress(L[i]) /\ ~HasValue(L[i])

\* C9: an address that is the value of several ExitAddress lines has one
\* entry, the record emitted by the last of these lines, and the duplicate
\* raises no error.
C9_LastWriteWins ==
    /\ (parsed.exc # "pending" /\ ~BareExitAddress(feed)) =>
           parsed.exc = "none"
    /\ parsed.exc = "none" =>
           \A k \in AddressesOf(feed) :
               LET j == LastEmitter(feed, k)
                   s == SegStart(feed, j)
               IN  /\ k \in DOMAIN parsed.nodelist
                   /\ parsed.nodelist[k] = ObjOf(feed, j)
                   /\ IsExitNode(feed[s]) =>
                          ParsedRecord(k)["ExitNode"] = ValueOf(feed[s])
                   /\ ~IsExitNode(feed[s]) =>
                          "ExitNode" \notin DOMAIN ParsedRecord(k)

\* the same address emitted by two records with different ExitNode values
C9_Witness ==
    /\ parsed.exc = "none"
    /\ \E k \in AddressesOf(feed) :
          \E i \in EmittersOf(feed, k) :
              LET j == LastEmitter(feed, k)
              IN  /\ i < j
                  /\ IsExitNode(feed[SegStart(feed, i)])
                  /\ IsExitNode(feed[SegStart(feed, j)])
                  /\ ValueOf(feed[SegStart(feed, i)])
                         # ValueOf(feed[SegStart(feed, j)])
                  /\ ParsedRecord(k)["ExitNode"]
                         = ValueOf(feed[SegStart(feed, j)])

(***************************************************************************)
(* C10                                                                     *)
(***************************************************************************)
\* C10: the keys of the table are exactly the addresses of the ExitAddress
\* lines (none: an empty table); ExitAddress lines that follow one another
\* before the next ExitNode line each have their entry, and the entries
\* carry the fields declared since the last ExitNode line: emission does
\* not clear the accumulator.
C10_KeysAndSharedFields ==
    parsed.exc = "none" =>
        /\ DOMAIN parsed.nodelist = AddressesOf(feed)
        /\ (\A i \in 1..Len(feed) : ~IsExitAddress(feed[i])) =>
               parsed.nodelist = EmptyDict
        /\ \A k \in AddressesOf(feed) :
              LET j == LastEmitter(feed, k)
                  s == SegStart(feed, j)
              IN  \A t \in s..j :
                      feed[t] # <<>> =>
                          /\ NameOf(feed[t]) \in DOMAIN ParsedRecord(k)
                          /\ LastOfName(feed, t) =>
                                 ParsedRecord(k)[NameOf(feed[t])]
                                     = ValueOf(feed[t])
        /\ \A k1, k2 \in AddressesOf(feed) :
              SegStart(feed, LastEmitter(feed, k1))
                  = SegStart(feed, LastEmitter(feed, k2)) =>
                      ParsedRecord(k1) = ParsedRecord(k2)

\* two ExitAddress lines after one ExitNode line and a field line
C10_Witness ==
    /\ parsed.exc = "none"
    /\ \E i, j \in 1..Len(feed) :
          /\ i < j
          /\ IsExitAddress(feed[i])
          /\ IsExitAddress(feed[j])
          /\ TokenOf(feed[i]) # TokenOf(feed[j])
          /\ SegStart(feed, i) = SegStart(feed, j)
          /\ IsExitNode(feed[SegStart(feed, i)])
          /\ SegStart(feed, i) + 1 < i
          /\ NameOf(feed[SegStart(feed, i) + 1]) = "LastStatus"
          /\ DOMAIN ParsedRecord(TokenOf(feed[i]))
                 = {"ExitNode", "LastStatus", "ExitAddress"}
          /\ DOMAIN ParsedRecord(TokenOf(feed[j]))
                 = {"ExitNode", "LastStatus", "ExitAddress"}

(***************************************************************************)
(* C4                                                                      *)
(***************************************************************************)
\* C4: lookup_ioc returns a LookupResult and raises no exception, whatever
\* fields the matched record has or lacks.
C4_LookupNeverRaises ==
    lastOp = "lookup_ioc" => (exc = "none" /\ ret # None)

(***************************************************************************)
(* C5                                                                      *)
(***************************************************************************)
\* the connection-level errors: the builtin class and the class the HTTP
\* client raises
ConnectionErrors == {"ConnectionError", "requests.exceptions.ConnectionError"}

\* C5: when the fetch fails with a connection-level error, construction
\* does not raise, the table is empty, and every lookup returns, without
\* raising, "Not found." with no raw result, result false and status -1.
C5_ConnectionErrorGivesEmptyTable ==
    fetched \in ConnectionErrors =>
        /\ pc = "ready"
        /\ exc = "none"
        /\ nodelist = EmptyDict
        /\ \A i \in 1..Len(results) :
              /\ results[i].details = Str("Not found.")
              /\ results[i].raw_result = None
              /\ results[i].result = FALSE
              /\ results[i].status = -1

(***************************************************************************)
(* C7                                                                      *)
(***************************************************************************)
\* C7: no lookup_ioc or parse_results call changes the table, its keys or
\* its records, and none performs a fetch.
C7_CallsLeaveTableUnchanged ==
    [][lastOp' \in {"lookup_ioc", "parse_results"} =>
          /\ nodelist' = nodelist
          /\ heap' = heap
          /\ fetches' = fetches
          /\ fetched' = fetched
          /\ pc' = pc]_vars

\* a found lookup, a not-found lookup and a parse_results call have run
C7_Witness ==
    /\ lastOp = "parse_results"
    /\ fetches = 1
    /\ Len(results) = 2
    /\ results[1].raw_result # None
    /\ results[2].details = Str("Not found.")
    /\ results[2].result = TRUE

(***************************************************************************)
(* C8                                                                      *)
(***************************************************************************)
\* C8: a caller that writes to the raw result of a LookupResult it was
\* given changes no record of the table.
C8_ResultSharesNoState ==
    [][lastOp' = "caller" =>
          \A k \in DOMAIN nodelist :
              heap'[nodelist'[k]] = heap[nodelist[k]]]_vars

(***************************************************************************)
(* C11                                                                     *)
(***************************************************************************)
\* C11: a lookup_ioc call whose ioc is a key of the table returns a result
\* with severity warning, details {NodeID: the record's ExitNode field,
\* LastStatus: the record's LastStatus field} and the matched record as raw
\* result.
C11_KeyLookupGivesWarning ==
    [][\A ioc \in Iocs :
          (LookupIoc(ioc) /\ ioc \in DOMAIN nodelist) =>
              /\ exc' = "none"
              /\ ret' # None
              /\ ret'.severity = "warning"
              /\ ret'.raw_result = Ref(nodelist[ioc])
              /\ ret'.details =
                     Dict([NodeID |-> heap[nodelist[ioc]]["ExitNode"],
                           LastStatus |-> heap[nodelist[ioc]]["LastStatus"]])
      ]_vars

(***************************************************************************)
(* C12                                                                     *)
(***************************************************************************)
\* C12: a lookup_ioc call whose ioc is not a key of the table returns
\* normally a result with details "Not found.", the default severity
\* (not warning) and no raw result.
C12_AbsentLookupNotFound ==
    [][\A ioc \in Iocs :
          (LookupIoc(ioc) /\ ioc \notin DOMAIN nodelist) =>
              /\ exc' = "none"
              /\ ret' # None
              /\ ret'.ioc = ioc
              /\ ret'.details = Str("Not found.")
              /\ ret'.severity = "information"
              /\ ret'.raw_result = None
              /\ results' = Append(results, ret')
      ]_vars

\* a lookup of an absent ioc against a table that holds other keys
C12_Witness ==
    /\ lastOp = "lookup_ioc"
    /\ exc = "none"
    /\ ret # None
    /\ nodelist # EmptyDict
    /\ ret.ioc \notin DOMAIN nodelist
    /\ ret.details = Str("Not found.")
    /\ ret.raw_result = None

(***************************************************************************)
(* C13                                                                     *)
(***************************************************************************)
\* C13: in every result returned the result flag and the status say only
\* whether the table is non-empty (true and 0, or false and -1); they are
\* the same for every ioc queried, matched or not.
C13_FlagIsFeedAvailability ==
    /\ \A i \in 1..Len(results) :
          /\ results[i].result = (nodelist # EmptyDict)
          /\ results[i].status = IF nodelist # EmptyDict THEN 0 ELSE -1
    /\ \A i, j \in 1..Len(results) :
          /\ results[i].result = results[j].result
          /\ results[i].status = results[j].status

\* a not-found result and a matched result of one provider
C13_Witness ==
    /\ Len(results) = 2
    /\ results[1].raw_result = None
    /\ results[1].ioc \notin DOMAIN nodelist
    /\ results[2].raw_result # None
    /\ results[1].status = 0
    /\ results[2].status = 0

(***************************************************************************)
(* C16                                                                     *)
(***************************************************************************)
\* C16: no result reports a match together with a feed-unavailable status:
\* severity warning or a raw result implies result true and status 0, and
\* status -1 implies details "Not found." and no raw result.
C16_NoMatchWhenUnavailable ==
    \A i \in 1..Len(results) :
        /\ (results[i].severity = "warning" \/ results[i].raw_result # None)
               => (results[i].result = TRUE /\ results[i].status = 0)
        /\ results[i].status = -1
               => (results[i].details = Str("Not found.")
                   /\ results[i].raw_result = None)

\* a matched result: severity warning, a raw result, status 0
C16_Witness ==
    \E i \in 1..Len(results) :
        /\ results[i].severity = "warning"
        /\ results[i].raw_result # None
        /\ results[i].ioc \in DOMAIN nodelist
        /\ results[i].status = 0
        /\ results[i].result = TRUE

(***************************************************************************)
(* C14.  The constructor alone, on a known document: Init draws the feed   *)
(* the endpoint holds, the one step is Tor.__init__ with each outcome of   *)
(* the fetch.                                                              *)
(***************************************************************************)
InitCtor ==
    /\ feed \in Feeds(MaxCtorLines)
    /\ parsed = NotParsed
    /\ pc = "new"
    /\ fetched = "none"
    /\ nodelist = EmptyDict
    /\ heap = EmptyHeap
    /\ results = <<>>
    /\ exc = "none"
    /\ ret = None
    /\ lastOp = "none"
    /\ fetches = 0

\* the outcomes of the fetch: "ok" or the class raised
ResponseKinds == {resp.kind : resp \in Responses}

ConstructFromFeed ==
    /\ pc = "new"
    /\ \E k \in ResponseKinds :
          TorInit([kind |-> k, lines |-> IF k = "ok" THEN feed ELSE <<>>])

NextCtor == ConstructFromFeed

SpecCtor == InitCtor /\ [][NextCtor]_vars

\* C14: an exception of the fetch, the decoding or the parsing that is not
\* a connection-type error leaves the constructor: the call raises it, no
\* table is built and no provider can be used.
C14_OtherErrorsPropagate ==
    (lastOp = "__init__"
     /\ \/ fetched = "UnicodeDecodeError"
        \/ (fetched = "ok" /\ BareExitAddress(feed))) =>
        /\ pc = "raised"
        /\ exc = IF fetched = "ok" THEN "IndexError" ELSE fetched
        /\ exc \notin ConnectionErrors
        /\ nodelist = EmptyDict
        /\ heap = EmptyHeap
        /\ ~ENABLED (\E ioc \in Iocs : LookupIoc(ioc))
        /\ ~ENABLED (\E i \in 1..MaxCalls : ParseResults(i))

\* the parse of a fetched document raised IndexError after an emission
C14_Witness ==
    /\ lastOp = "__init__"
    /\ fetched = "ok"
    /\ Len(feed) >= 2
    /\ IsExitAddress(feed[1]) /\ HasValue(feed[1])
    /\ BareExitAddress(feed)
    /\ pc = "raised"
    /\ exc = "IndexError"

====
